---- MODULE Spec2Model ----
(***************************************************************************)
(* CredentialList (awx/ui_next): the credential list screen.               *)
(*                                                                         *)
(* State: the two useState cells (showDeletionError, selected), the router *)
(* location, the two useRequest instances (list fetch, deletion) and the   *)
(* requests they have in flight.  One action per event of the UI dispatch  *)
(* loop: a user event, a navigation, or the settlement of one network      *)
(* request together with every continuation (microtask), re-render and     *)
(* effect it causes.                                                       *)
(***************************************************************************)
EXTENDS Integers, Sequences, FiniteSets, TLC

VARIABLES
    mounted,            \* the first commit (and its effects) has happened
    location,           \* useLocation(): [search, key]
    showDeletionError,  \* useState(false)
    selected,           \* useState([]): sequence of credentials
    result,             \* useRequest #1 result: {credentials, credentialCount, actions}
    contentError,       \* useRequest #1 error
    isLoading,          \* useRequest #1 isLoading
    isDeleteLoading,    \* useRequest #2 isLoading
    deletionError,      \* useRequest #2 error
    fetches,            \* fetchCredentials invocations still observable, by number
    deletes,            \* deleteCredentials invocations still observable, by number
    started             \* invocations started so far: [effect, explicit, delete]

vars == <<mounted, location, showDeletionError, selected, result, contentError,
          isLoading, isDeleteLoading, deletionError, fetches, deletes, started>>

----------------------------------------------------------------------------
(* Bounds of the model *)

NumIds == 2         \* credential ids 1..NumIds exist on the backend
MaxLen == 2         \* most credentials one list-read response carries
MaxCount == 2       \* largest total count a list-read response reports
MaxPage == 2        \* pages the URL can name
MaxFetches == 3     \* fetchCredentials invocations in one run
MaxDeletes == 1     \* deleteCredentials invocations in one run

Ids == 1 .. NumIds
Pages == 1 .. MaxPage

----------------------------------------------------------------------------
(* Values *)

\* A credential as this component sees it: only `id` is read.
Credential(i) == [id |-> i]

\* JavaScript values the component tests for truthiness.
Undefined == [type |-> "undefined", keys |-> {}]
Object(ks) == [type |-> "object", keys |-> ks]
Truthy(v) == v.type = "object"
HasOwnProperty(v, k) == k \in v.keys

\* An error object: the call that threw it, and for a destroy the
\* invocation it belongs to (every failure is a new object).
NoError == [call |-> "none", inv |-> 0]
Error(call, inv) == [call |-> call, inv |-> inv]

\* Response bodies the backend can send to CredentialsAPI.read: results in
\* ascending id order without repeats, and a total count no smaller.
ResultLists ==
    { s \in UNION { [1 .. n -> Ids] : n \in 0 .. MaxLen } :
        \A i \in 1 .. Len(s) - 1 : s[i] < s[i + 1] }

ReadResponses ==
    UNION { { [results |-> [i \in 1 .. Len(s) |-> Credential(s[i])], count |-> c] :
                c \in { n \in {Len(s), MaxCount} : n >= Len(s) } } : s \in ResultLists }

\* Response bodies of CredentialsAPI.readOptions: data.actions.
OptionsResponses ==
    { [actions |-> Object(ks)] : ks \in {{"GET"}, {"GET", "POST"}} }

NoReadResponse == [results |-> <<>>, count |-> 0]
NoOptionsResponse == [actions |-> Undefined]

----------------------------------------------------------------------------
(* @util/qs: the query-string codec, as the component uses it.  A query    *)
(* string is the set of <<key, value>> pairs it spells out.                *)

QS_CONFIG == [page |-> 1, page_size |-> 20, order_by |-> "name"]

parseQueryString(config, search) ==
    [k \in DOMAIN config |->
        IF \E pr \in search : pr[1] = k
        THEN (CHOOSE pr \in search : pr[1] = k)[2]
        ELSE config[k]]

replaceParams(params, newParams) ==
    [k \in DOMAIN params |->
        IF k \in DOMAIN newParams THEN newParams[k] ELSE params[k]]

encodeNonDefaultQueryString(config, params) ==
    { <<k, params[k]>> : k \in { x \in DOMAIN params : params[x] # config[x] } }

\* The location object of a URL: history gives every entry a fresh key.
Location(search, key) == [search |-> search, key |-> key]

PageOf(loc) == parseQueryString(QS_CONFIG, loc.search).page

----------------------------------------------------------------------------
(* @util/useRequest: {result, error, isLoading, request}.  request() sets  *)
(* the loading flag, awaits makeRequest, and on settlement stores the      *)
(* response (clearing the error) or the error (leaving the result), drops  *)
(* the loading flag, and settles its own promise the same way.             *)

Hook(r, e, l) == [result |-> r, error |-> e, isLoading |-> l]

RequestStarted(h) == [h EXCEPT !.isLoading = TRUE]

RequestResolved(h, response) ==
    [h EXCEPT !.result = response, !.error = NoError, !.isLoading = FALSE]

RequestRejected(h, err) ==
    [h EXCEPT !.error = err, !.isLoading = FALSE]

\* Mutant of PromiseAll: waits for every input to settle before rejecting.
PromiseAllSettledFirst(states) ==
    IF \E i \in DOMAIN states : states[i] = "pending" THEN "pending"
    ELSE IF \E i \in DOMAIN states : states[i] = "fail" THEN "rejected"
    ELSE "fulfilled"

\* Promise.all over requests in states "pending" | "ok" | "fail": rejected
\* as soon as one input rejects, fulfilled once every input has fulfilled.
PromiseAll(states) ==
    IF \E i \in DOMAIN states : states[i] = "fail" THEN "rejected"
    ELSE IF \A i \in DOMAIN states : states[i] = "ok" THEN "fulfilled"
    ELSE "pending"

----------------------------------------------------------------------------
(* The component's state as one record, so that a handler is a function    *)
(* from the state of the render it closed over to the next state.          *)

State ==
    [mounted |-> mounted, location |-> location,
     showDeletionError |-> showDeletionError, selected |-> selected,
     result |-> result, contentError |-> contentError, isLoading |-> isLoading,
     isDeleteLoading |-> isDeleteLoading, deletionError |-> deletionError,
     fetches |-> fetches, deletes |-> deletes, started |-> started]

\* The two useRequest instances, as the component destructures them.
FetchHook(s) == Hook(s.result, s.contentError, s.isLoading)
SetFetchHook(s, h) ==
    [s EXCEPT !.result = h.result, !.contentError = h.error,
              !.isLoading = h.isLoading]

DeleteHook(s) == Hook(Undefined, s.deletionError, s.isDeleteLoading)
SetDeleteHook(s, h) ==
    [s EXCEPT !.deletionError = h.error, !.isDeleteLoading = h.isLoading]

InitialValue == [credentials |-> <<>>, credentialCount |-> 0, actions |-> Object({})]

\* Mutant of FetchResult: the count is taken from the rows received.
FetchResultCountsRows(creds, credActions) ==
    [credentials |-> creds.results,
     credentialCount |-> Len(creds.results),
     actions |-> credActions.actions]

\* What the fetch callback returns once both reads have fulfilled.
FetchResult(creds, credActions) ==
    [credentials |-> creds.results,
     credentialCount |-> creds.count,
     actions |-> credActions.actions]

\* f with one more entry, n |-> c.
Put(f, n, c) == [k \in DOMAIN f \cup {n} |-> IF k = n THEN c ELSE f[k]]

FetchesStarted(s) == s.started.effect + s.started.explicit

\* fetchCredentials() called from a render whose location is loc: the hook
\* raises the loading flag and the callback starts both reads together.
fetchCredentials(s, loc, origin) ==
    [SetFetchHook(s, RequestStarted(FetchHook(s))) EXCEPT
        !.started[origin] = @ + 1,
        !.fetches = Put(@, FetchesStarted(s) + 1,
            [loc |-> loc,
             origin |-> origin,
             reqs |-> [read |-> "pending", readOptions |-> "pending"],
             creds |-> NoReadResponse,
             credActions |-> NoOptionsResponse,
             status |-> "pending",
             before |-> s.result])]

\* Mutant of FetchCredentialsDeps: the selection is a dependency too.
FetchCredentialsDepsWithSelected(s) == <<s.location, s.selected>>

\* The dependency list that decides the identity of fetchCredentials, and
\* with it when the effect of lines 61-63 runs again.
FetchCredentialsDeps(s) == <<s.location>>

\* Mutant of Effects: the deletion-error effect runs only when the error
\* goes from none to some, not when one error replaces another.
EffectsOnFirstErrorOnly(old, new) ==
    LET a == IF ~old.mounted \/ FetchCredentialsDeps(new) # FetchCredentialsDeps(old)
             THEN fetchCredentials(new, new.location, "effect")
             ELSE new
        b == IF (~old.mounted \/ old.deletionError = NoError)
                /\ a.deletionError # NoError
             THEN [a EXCEPT !.showDeletionError = TRUE]
             ELSE a
    IN  [b EXCEPT !.mounted = TRUE]

\* The effects of a commit, given the previous commit's state.
Effects(old, new) ==
    LET a == IF ~old.mounted \/ FetchCredentialsDeps(new) # FetchCredentialsDeps(old)
             THEN fetchCredentials(new, new.location, "effect")
             ELSE new
        b == IF (~old.mounted \/ a.deletionError # old.deletionError)
                /\ a.deletionError # NoError
             THEN [a EXCEPT !.showDeletionError = TRUE]
             ELSE a
    IN  [b EXCEPT !.mounted = TRUE]

\* Mutant of onClose: dismissing the modal also clears the selection.
onCloseClearsSelected(s) ==
    [s EXCEPT !.showDeletionError = FALSE, !.selected = <<>>]

\* onClose of the AlertModal: () => setShowDeletionError(false).
onClose(s) == [s EXCEPT !.showDeletionError = FALSE]

historyPush(s, search) ==
    [s EXCEPT !.location = Location(search, s.location.key + 1)]

setSelected(s, sel) == [s EXCEPT !.selected = sel]

\* Mutant of handleSelectAll: copies the selection instead of the list.
handleSelectAllCopiesSelected(s, isSelected) ==
    setSelected(s, IF isSelected THEN s.selected ELSE <<>>)

handleSelectAll(s, isSelected) ==
    setSelected(s, IF isSelected THEN s.result.credentials ELSE <<>>)

\* Mutant of handleSelect: the row is added without looking for it first.
handleSelectAlwaysAppends(s, row) == setSelected(s, Append(s.selected, row))

handleSelect(s, row) ==
    IF \E i \in DOMAIN s.selected : s.selected[i].id = row.id
    THEN setSelected(s, SelectSeq(s.selected, LAMBDA x : x.id # row.id))
    ELSE setSelected(s, Append(s.selected, row))

\* Mutant of adjustPagination: fetchCredentials is called in the navigate
\* branch as well.
adjustPaginationAlwaysFetches(s, c) ==
    LET params == parseQueryString(QS_CONFIG, c.loc.search)
    IN  IF params.page > 1 /\ Len(c.sel) = Len(c.creds)
        THEN fetchCredentials(
                 historyPush(s, encodeNonDefaultQueryString(QS_CONFIG,
                     replaceParams(params, [page |-> params.page - 1]))),
                 c.loc, "explicit")
        ELSE fetchCredentials(s, c.loc, "explicit")

\* adjustPagination, run with the selected, credentials, location and
\* fetchCredentials of the render c in which handleDelete was invoked.
adjustPagination(s, c) ==
    LET params == parseQueryString(QS_CONFIG, c.loc.search)
    IN  IF params.page > 1 /\ Len(c.sel) = Len(c.creds)
        THEN historyPush(s, encodeNonDefaultQueryString(QS_CONFIG,
                 replaceParams(params, [page |-> params.page - 1])))
        ELSE fetchCredentials(s, c.loc, "explicit")

\* Mutant of handleDeleteResume: the selection is not cleared.
handleDeleteResumeKeepsSelected(s, c) == adjustPagination(s, c)

\* handleDelete after its await: reached only when deleteCredentials()
\* resolved.
handleDeleteResume(s, c) == setSelected(adjustPagination(s, c), <<>>)

\* Mutant of deleteSettled: a failed deletion is also reported as the
\* content error.
deleteSettledSetsContentError(s, d) ==
    LET c == s.deletes[d]
        outcome == PromiseAll(c.reqs)
    IN  IF c.status # "pending" \/ outcome = "pending" THEN s
        ELSE IF outcome = "rejected"
        THEN [SetDeleteHook(s, RequestRejected(DeleteHook(s),
                  Error("destroy", d)))
                EXCEPT !.deletes[d].status = "failed",
                       !.contentError = Error("destroy", d)]
        ELSE handleDeleteResume(
                [SetDeleteHook(s, RequestResolved(DeleteHook(s), Undefined))
                    EXCEPT !.deletes[d].status = "resolved"], c)

\* The deletion invocation d has a settled Promise.all: the hook records
\* the outcome and handleDelete resumes or is abandoned.
deleteSettled(s, d) ==
    LET c == s.deletes[d]
        outcome == PromiseAll(c.reqs)
    IN  IF c.status # "pending" \/ outcome = "pending" THEN s
        ELSE IF outcome = "rejected"
        THEN [SetDeleteHook(s, RequestRejected(DeleteHook(s),
                  Error("destroy", d)))
                EXCEPT !.deletes[d].status = "failed"]
        ELSE handleDeleteResume(
                [SetDeleteHook(s, RequestResolved(DeleteHook(s), Undefined))
                    EXCEPT !.deletes[d].status = "resolved"], c)

\* Mutant of handleDelete: one destroy per loaded row instead of one per
\* selected row.
handleDeleteDestroysLoadedPage(s) ==
    LET c == [sel |-> s.selected, creds |-> s.result.credentials,
              loc |-> s.location,
              reqs |-> [i \in 1 .. Len(s.result.credentials) |-> "pending"],
              status |-> "pending"]
        d == s.started.delete + 1
    IN  deleteSettled([SetDeleteHook(s, RequestStarted(DeleteHook(s)))
                          EXCEPT !.started.delete = d,
                                 !.deletes = Put(@, d, c)], d)

\* handleDelete up to its await: deleteCredentials() raises the loading
\* flag and issues one destroy per member of the selection it closed over.
handleDelete(s) ==
    LET c == [sel |-> s.selected, creds |-> s.result.credentials,
              loc |-> s.location,
              reqs |-> [i \in 1 .. Len(s.selected) |-> "pending"],
              status |-> "pending"]
        d == s.started.delete + 1
    IN  deleteSettled([SetDeleteHook(s, RequestStarted(DeleteHook(s)))
                          EXCEPT !.started.delete = d,
                                 !.deletes = Put(@, d, c)], d)

\* Mutant of fetchSettled: a failure puts the initial value back.
fetchSettledResetsOnFailure(s, f, call) ==
    LET c == s.fetches[f]
        outcome == PromiseAll(c.reqs)
    IN  IF c.status # "pending" \/ outcome = "pending" THEN s
        ELSE IF outcome = "rejected"
        THEN [SetFetchHook(s, [RequestRejected(FetchHook(s), Error(call, 0))
                                  EXCEPT !.result = InitialValue])
                EXCEPT !.fetches[f].status = "failed"]
        ELSE [SetFetchHook(s, RequestResolved(FetchHook(s),
                                  FetchResult(c.creds, c.credActions)))
                EXCEPT !.fetches[f].status = "resolved"]

\* Mutant of fetchSettled: a success is dropped when a later invocation
\* has been started (the request started last wins).
fetchSettledLatestStartedWins(s, f, call) ==
    LET c == s.fetches[f]
        outcome == PromiseAll(c.reqs)
    IN  IF c.status # "pending" \/ outcome = "pending" THEN s
        ELSE IF outcome = "rejected"
        THEN [SetFetchHook(s, RequestRejected(FetchHook(s), Error(call, 0)))
                EXCEPT !.fetches[f].status = "failed"]
        ELSE IF f < FetchesStarted(s)
        THEN [SetFetchHook(s, RequestResolved(FetchHook(s), s.result))
                EXCEPT !.fetches[f].status = "resolved"]
        ELSE [SetFetchHook(s, RequestResolved(FetchHook(s),
                                  FetchResult(c.creds, c.credActions)))
                EXCEPT !.fetches[f].status = "resolved"]

\* The fetch invocation f has a settled Promise.all.
fetchSettled(s, f, call) ==
    LET c == s.fetches[f]
        outcome == PromiseAll(c.reqs)
    IN  IF c.status # "pending" \/ outcome = "pending" THEN s
        ELSE IF outcome = "rejected"
        THEN [SetFetchHook(s, RequestRejected(FetchHook(s), Error(call, 0)))
                EXCEPT !.fetches[f].status = "failed"]
        ELSE [SetFetchHook(s, RequestResolved(FetchHook(s),
                                  FetchResult(c.creds, c.credActions)))
                EXCEPT !.fetches[f].status = "resolved"]

----------------------------------------------------------------------------
(* Derived values of a render *)

\* Mutant of canAdd: tests for the wrong verb.
canAddTestsGet ==
    IF Truthy(result.actions)
    THEN HasOwnProperty(result.actions, "GET")
    ELSE FALSE

canAdd == IF Truthy(result.actions)
          THEN HasOwnProperty(result.actions, "POST")
          ELSE FALSE

IsAllSelected(s) ==
    Len(s.selected) > 0 /\ Len(s.selected) = Len(s.result.credentials)

isAllSelected == IsAllSelected(State)

hasContentLoading == isLoading \/ isDeleteLoading

----------------------------------------------------------------------------
(* Actions *)

\* Book-keeping of the invocation tables.  A fetch invocation is
\* "resolved" while its result is the one the hook holds; an invocation
\* leaves its table once it has settled, none of its requests is in flight
\* and (for a fetch) a later resolution has replaced its result.
Forget(old, new) ==
    LET newer(f) == \E g \in DOMAIN new.fetches :
                        /\ g # f
                        /\ new.fetches[g].status = "resolved"
                        /\ (g \notin DOMAIN old.fetches
                                \/ old.fetches[g].status = "pending")
        inFlight(c) == \E k \in DOMAIN c.reqs : c.reqs[k] = "pending"
        keepFetch(f) ==
            LET c == new.fetches[f]
            IN  \/ c.status = "pending"
                \/ c.status = "resolved" /\ ~newer(f)
                \/ inFlight(c)
        fetch(f) ==
            LET c == new.fetches[f]
            IN  IF c.status = "pending" THEN c
                ELSE IF c.status = "resolved" /\ ~newer(f)
                THEN [c EXCEPT !.before = InitialValue]
                ELSE [c EXCEPT !.status = "failed",
                               !.before = InitialValue,
                               !.loc = Location({}, 0),
                               !.creds = NoReadResponse,
                               !.credActions = NoOptionsResponse]
        delete(d) ==
            LET c == new.deletes[d]
            IN  IF c.status = "pending" THEN c
                ELSE [c EXCEPT !.creds = <<>>, !.loc = Location({}, 0)]
    IN  [new EXCEPT
            !.fetches = [f \in {g \in DOMAIN new.fetches : keepFetch(g)} |-> fetch(f)],
            !.deletes = [d \in {e \in DOMAIN new.deletes :
                                  new.deletes[e].status = "pending"
                                  \/ inFlight(new.deletes[e])} |-> delete(d)]]

\* The next commit: the handler's result new, then the effects it causes.
Commit(new) ==
    \E n \in {Forget(State, Effects(State, new))} :
        /\ mounted' = n.mounted
        /\ location' = n.location
        /\ showDeletionError' = n.showDeletionError
        /\ selected' = n.selected
        /\ result' = n.result
        /\ contentError' = n.contentError
        /\ isLoading' = n.isLoading
        /\ isDeleteLoading' = n.isDeleteLoading
        /\ deletionError' = n.deletionError
        /\ fetches' = n.fetches
        /\ deletes' = n.deletes
        /\ started' = n.started

PendingDeletes == { d \in DOMAIN deletes : deletes[d].status = "pending" }

\* Room for one more fetch invocation, counting the one every pending
\* deletion may still start.
FetchBudget ==
    started.effect + started.explicit + Cardinality(PendingDeletes) < MaxFetches

Init ==
    /\ mounted = FALSE
    /\ location = Location({}, 0)
    /\ showDeletionError = FALSE
    /\ selected = <<>>
    /\ result = InitialValue
    /\ contentError = NoError
    /\ isLoading = FALSE
    /\ isDeleteLoading = FALSE
    /\ deletionError = NoError
    /\ fetches = <<>>
    /\ deletes = <<>>
    /\ started = [effect |-> 0, explicit |-> 0, delete |-> 0]

\* First commit: the effects run for the first time.
Mount ==
    /\ ~mounted
    /\ Commit(State)

\* The URL changes to another page (pagination control, link, back/forward).
Navigate(p) ==
    /\ mounted
    /\ FetchBudget
    /\ p # PageOf(location)
    /\ Commit(historyPush(State, encodeNonDefaultQueryString(QS_CONFIG,
                 replaceParams(parseQueryString(QS_CONFIG, location.search),
                               [page |-> p]))))

HandleSelect(row) ==
    /\ mounted
    /\ \E i \in DOMAIN result.credentials : result.credentials[i] = row
    /\ Commit(handleSelect(State, row))

HandleSelectAll(isSelected) ==
    /\ mounted
    /\ Commit(handleSelectAll(State, isSelected))

HandleDelete ==
    /\ mounted
    /\ started.delete < MaxDeletes
    /\ FetchBudget
    /\ Commit(handleDelete(State))

ReadOk(f, resp) ==
    /\ fetches[f].reqs.read = "pending"
    /\ Commit(fetchSettled([State EXCEPT !.fetches[f].reqs.read = "ok",
                                         !.fetches[f].creds = resp], f, "read"))

ReadFail(f) ==
    /\ fetches[f].reqs.read = "pending"
    /\ Commit(fetchSettled([State EXCEPT !.fetches[f].reqs.read = "fail"], f, "read"))

ReadOptionsOk(f, resp) ==
    /\ fetches[f].reqs.readOptions = "pending"
    /\ Commit(fetchSettled([State EXCEPT !.fetches[f].reqs.readOptions = "ok",
                                         !.fetches[f].credActions = resp],
                           f, "readOptions"))

ReadOptionsFail(f) ==
    /\ fetches[f].reqs.readOptions = "pending"
    /\ Commit(fetchSettled([State EXCEPT !.fetches[f].reqs.readOptions = "fail"],
                           f, "readOptions"))

DestroyOk(d, i) ==
    /\ deletes[d].reqs[i] = "pending"
    /\ Commit(deleteSettled([State EXCEPT !.deletes[d].reqs[i] = "ok"], d))

DestroyFail(d, i) ==
    /\ deletes[d].reqs[i] = "pending"
    /\ Commit(deleteSettled([State EXCEPT !.deletes[d].reqs[i] = "fail"], d))

\* AlertModal onClose.
CloseModal ==
    /\ showDeletionError
    /\ Commit(onClose(State))

Next ==
    \/ Mount
    \/ \E p \in Pages : Navigate(p)
    \/ \E i \in Ids : HandleSelect(Credential(i))
    \/ \E b \in BOOLEAN : HandleSelectAll(b)
    \/ HandleDelete
    \/ \E f \in DOMAIN fetches : \E resp \in ReadResponses : ReadOk(f, resp)
    \/ \E f \in DOMAIN fetches : ReadFail(f)
    \/ \E f \in DOMAIN fetches : \E resp \in OptionsResponses : ReadOptionsOk(f, resp)
    \/ \E f \in DOMAIN fetches : ReadOptionsFail(f)
    \/ \E d \in DOMAIN deletes : \E i \in DOMAIN deletes[d].reqs : DestroyOk(d, i)
    \/ \E d \in DOMAIN deletes : \E i \in DOMAIN deletes[d].reqs : DestroyFail(d, i)
    \/ CloseModal

Spec == Init /\ [][Next]_vars

----------------------------------------------------------------------------
(* The same component behind the list collaborator that, while the loading *)
(* signal is true, offers no row, select-all or delete control.            *)

UIHandleSelect(row) == ~hasContentLoading /\ HandleSelect(row)
UIHandleSelectAll(isSelected) == ~hasContentLoading /\ HandleSelectAll(isSelected)
UIHandleDelete == ~hasContentLoading /\ HandleDelete

NextUI ==
    \/ Mount
    \/ \E p \in Pages : Navigate(p)
    \/ \E i \in Ids : UIHandleSelect(Credential(i))
    \/ \E b \in BOOLEAN : UIHandleSelectAll(b)
    \/ UIHandleDelete
    \/ \E f \in DOMAIN fetches : \E resp \in ReadResponses : ReadOk(f, resp)
    \/ \E f \in DOMAIN fetches : ReadFail(f)
    \/ \E f \in DOMAIN fetches : \E resp \in OptionsResponses : ReadOptionsOk(f, resp)
    \/ \E f \in DOMAIN fetches : ReadOptionsFail(f)
    \/ \E d \in DOMAIN deletes : \E i \in DOMAIN deletes[d].reqs : DestroyOk(d, i)
    \/ \E d \in DOMAIN deletes : \E i \in DOMAIN deletes[d].reqs : DestroyFail(d, i)
    \/ CloseModal

SpecUI == Init /\ [][NextUI]_vars

----------------------------------------------------------------------------
(* Runs in which delete is triggered a second time: after a failure, after *)
(* its modal was closed, or while an earlier deletion has not finished.    *)
(* The fetch budget is smaller so that the state space stays the size of   *)
(* Spec's.                                                                 *)

MaxRedeletes == 2   \* deleteCredentials invocations in one such run
MaxRefetches == 2   \* fetchCredentials invocations in one such run

RefetchBudget ==
    started.effect + started.explicit + Cardinality(PendingDeletes) < MaxRefetches

HandleRedelete ==
    /\ mounted
    /\ started.delete < MaxRedeletes
    /\ RefetchBudget
    /\ Commit(handleDelete(State))

NextRedelete ==
    \/ Mount
    \/ \E p \in Pages : RefetchBudget /\ Navigate(p)
    \/ \E i \in Ids : HandleSelect(Credential(i))
    \/ \E b \in BOOLEAN : HandleSelectAll(b)
    \/ HandleRedelete
    \/ \E f \in DOMAIN fetches : \E resp \in ReadResponses : ReadOk(f, resp)
    \/ \E f \in DOMAIN fetches : ReadFail(f)
    \/ \E f \in DOMAIN fetches : \E resp \in OptionsResponses : ReadOptionsOk(f, resp)
    \/ \E f \in DOMAIN fetches : ReadOptionsFail(f)
    \/ \E d \in DOMAIN deletes : \E i \in DOMAIN deletes[d].reqs : DestroyOk(d, i)
    \/ \E d \in DOMAIN deletes : \E i \in DOMAIN deletes[d].reqs : DestroyFail(d, i)
    \/ CloseModal

SpecRedelete == Init /\ [][NextRedelete]_vars

\* The same runs behind the list collaborator.
UIHandleRedelete == ~hasContentLoading /\ HandleRedelete

NextUIRedelete ==
    \/ Mount
    \/ \E p \in Pages : RefetchBudget /\ Navigate(p)
    \/ \E i \in Ids : UIHandleSelect(Credential(i))
    \/ \E b \in BOOLEAN : UIHandleSelectAll(b)
    \/ UIHandleRedelete
    \/ \E f \in DOMAIN fetches : \E resp \in ReadResponses : ReadOk(f, resp)
    \/ \E f \in DOMAIN fetches : ReadFail(f)
    \/ \E f \in DOMAIN fetches : \E resp \in OptionsResponses : ReadOptionsOk(f, resp)
    \/ \E f \in DOMAIN fetches : ReadOptionsFail(f)
    \/ \E d \in DOMAIN deletes : \E i \in DOMAIN deletes[d].reqs : DestroyOk(d, i)
    \/ \E d \in DOMAIN deletes : \E i \in DOMAIN deletes[d].reqs : DestroyFail(d, i)
    \/ CloseModal

SpecUIRedelete == Init /\ [][NextUIRedelete]_vars

----------------------------------------------------------------------------
(* Steps and sets the properties speak about *)

IdsOf(seq) == { seq[i].id : i \in DOMAIN seq }

PendingFetches == { f \in DOMAIN fetches : fetches[f].status = "pending" }

RequestInFlight(c) == \E k \in DOMAIN c.reqs : c.reqs[k] = "pending"

\* This step delivers the failure of fetch invocation f.
FetchFails(f) ==
    /\ f \in PendingFetches
    /\ f \notin DOMAIN fetches' \/ fetches'[f].status = "failed"

\* This step delivers the failure of deletion invocation d.
DeleteFails(d) ==
    /\ d \in PendingDeletes
    /\ deletionError' = Error("destroy", d)

\* This step delivers the success of deletion invocation d, whose
\* handleDelete closed over c.
DeleteResolves(d, c) ==
    \/ /\ d \in PendingDeletes
       /\ c = deletes[d]
       /\ d \notin DOMAIN deletes'
       /\ deletionError' = NoError
    \/ /\ d = started.delete + 1
       /\ started'.delete = d
       /\ d \notin DOMAIN deletes'
       /\ c = [sel |-> selected, creds |-> result.credentials, loc |-> location,
               reqs |-> <<>>, status |-> "pending"]

Closures ==
    { deletes[d] : d \in DOMAIN deletes } \cup
    { [sel |-> selected, creds |-> result.credentials, loc |-> location,
       reqs |-> <<>>, status |-> "pending"] }

----------------------------------------------------------------------------
(* C1 *)

\* C1: when a deletion started by handleDelete succeeds, then if the page P
\* is greater than 1 and every credential loaded on it was deleted, the
\* component navigates to page P-1 and does not call fetchCredentials; and
\* if the deleted credentials are a strict subset of the loaded page, it
\* calls fetchCredentials for the same location and does not navigate.
C1_PaginationFollowsDeletedPage ==
    [][\A d \in 1 .. MaxDeletes : \A c \in Closures :
         DeleteResolves(d, c) =>
           LET P == PageOf(c.loc)
               deleted == IdsOf(c.sel)
               loaded == IdsOf(c.creds)
               n == started.effect + started.explicit + 1
           IN  /\ (P > 1 /\ loaded \subseteq deleted) =>
                     /\ location'.key = location.key + 1
                     /\ PageOf(location') = P - 1
                     /\ started'.explicit = started.explicit
               /\ (deleted \subseteq loaded /\ deleted # loaded) =>
                     /\ location' = location
                     /\ started'.explicit = started.explicit + 1
                     /\ fetches'[n].loc = c.loc
      ]_vars

----------------------------------------------------------------------------
(* C2 *)

\* C2: handleDelete clears the selection only when the deletion succeeded:
\* when a delete call fails, the selection after handleDelete has run its
\* course is the one the delete was triggered with; when all succeed, the
\* selection is empty.
C2_SelectionClearedOnlyOnSuccess ==
    [][\A d \in 1 .. MaxDeletes :
         /\ DeleteFails(d) => selected' = deletes[d].sel
         /\ \A c \in Closures : DeleteResolves(d, c) => selected' = <<>>
      ]_vars

\* A deletion has failed and the selection it was triggered with is still
\* in place.
C2_Witness ==
    /\ deletionError # NoError
    /\ ~isDeleteLoading
    /\ Len(selected) = 2

----------------------------------------------------------------------------
(* C3 *)

\* C3 as stated: when a read of a fetchCredentials invocation fails, the
\* view model afterwards is what it was before that invocation started, and
\* contentError is set to the failure.
C3_ViewModelAsBeforeInvocation ==
    [][\A f \in DOMAIN fetches :
         FetchFails(f) =>
           /\ result' = fetches[f].before
           /\ contentError' \in {Error("read", 0), Error("readOptions", 0)}
      ]_vars

\* C3 as amended: when a read of a fetchCredentials invocation fails, the
\* view model afterwards is what it was immediately before the failure was
\* delivered, and contentError is set to the failure of the call that failed.
C3_FailureLeavesViewModel ==
    [][\A f \in DOMAIN fetches :
         FetchFails(f) =>
           /\ result' = result
           /\ contentError' =
                 Error(CHOOSE k \in {"read", "readOptions"} :
                           fetches[f].reqs[k] = "pending"
                           /\ (f \notin DOMAIN fetches'
                                 \/ fetches'[f].reqs[k] = "fail"), 0)
      ]_vars

\* A fetch failed after a page had been loaded, and the page is still shown.
C3_Witness ==
    /\ contentError # NoError
    /\ ~isLoading
    /\ result # InitialValue

----------------------------------------------------------------------------
(* C4 *)

\* C4: in every reachable state the selected ids are a subset of the ids of
\* the currently loaded credentials.
C4_SelectedWithinLoaded == IdsOf(selected) \subseteq IdsOf(result.credentials)

----------------------------------------------------------------------------
(* C5 *)

\* C5 as stated: for every number N of loaded credentials, isAllSelected is
\* true immediately after handleSelectAll(true).
C5_SelectAllForEveryN == mounted => IsAllSelected(handleSelectAll(State, TRUE))

\* C5 as amended: for every number N >= 1 of loaded credentials,
\* isAllSelected is true immediately after handleSelectAll(true), and from
\* that state one handleSelect on any loaded row makes it false.
C5_SelectAllThenDeselect ==
    (mounted /\ Len(result.credentials) >= 1) =>
        LET all == handleSelectAll(State, TRUE)
        IN  /\ IsAllSelected(all)
            /\ \A j \in DOMAIN all.result.credentials :
                 ~IsAllSelected(handleSelect(all, all.result.credentials[j]))

\* Select-all has acted on a loaded page of two rows.
C5_Witness ==
    /\ Len(result.credentials) = 2
    /\ selected = result.credentials
    /\ isAllSelected

----------------------------------------------------------------------------
(* C6 *)

----------------------------------------------------------------------------
(* C7 *)

\* C7: in every reachable state the view model is the empty initial value
\* or the triple of one successful fetchCredentials invocation: credentials
\* and credentialCount from its list-read response, actions from its options
\* response, both reads of that invocation having completed.
C7_ViewModelOfOneInvocation ==
    \/ result = InitialValue
    \/ \E f \in DOMAIN fetches :
          /\ fetches[f].status = "resolved"
          /\ fetches[f].reqs.read = "ok"
          /\ fetches[f].reqs.readOptions = "ok"
          /\ result.credentials = fetches[f].creds.results
          /\ result.credentialCount = fetches[f].creds.count
          /\ result.actions = fetches[f].credActions.actions

\* A loaded page is shown while a later invocation has received only its
\* list-read response, with other rows and another count.
C7_Witness ==
    /\ result # InitialValue
    /\ \E f \in PendingFetches :
          /\ fetches[f].reqs.read = "ok"
          /\ fetches[f].creds.results # result.credentials
          /\ fetches[f].creds.count # result.credentialCount
          /\ fetches[f].creds.count # Len(fetches[f].creds.results)

----------------------------------------------------------------------------
(* C8 *)

\* C8: the automatic fetch is started once at mount and once per change of
\* the location and by nothing else: not by a change of the selection, of
\* showDeletionError or of a loading flag, nor by a settlement.
C8_AutomaticFetchPerLocation ==
    /\ [](started.effect = IF mounted THEN location.key + 1 ELSE 0)
    /\ [][started'.effect # started.effect =>
            /\ started'.effect = started.effect + 1
            /\ (~mounted \/ location' # location)]_vars

\* After a navigation, with a selection made and every request settled.
C8_Witness ==
    /\ location.key >= 1
    /\ selected # <<>>
    /\ showDeletionError
    /\ ~hasContentLoading

----------------------------------------------------------------------------
(* C9 *)

\* C9: the loading signal is true whenever a list-fetch or deletion
\* invocation is in flight, and false once none is, also when two fetch
\* invocations overlap.
C9_LoadingWhileInFlight ==
    hasContentLoading = (PendingFetches # {} \/ PendingDeletes # {})

----------------------------------------------------------------------------
(* C10 *)

\* C10 as stated: canAdd is true iff the actions mapping has a POST key,
\* and it is false with the initial mapping and after a failed fetch.
C10_CanAddFalseAfterFailure ==
    /\ canAdd = ("POST" \in result.actions.keys)
    /\ result.actions = InitialValue.actions => ~canAdd
    /\ contentError # NoError => ~canAdd

\* C10 as amended: canAdd is true iff the actions mapping has a POST key:
\* iff the options response of the invocation whose result is shown named
\* POST; it is false with the initial mapping, also after a failed fetch
\* that leaves the initial mapping in place.
C10_CanAddIffPost ==
    /\ canAdd = ("POST" \in result.actions.keys)
    /\ canAdd = (\E f \in DOMAIN fetches :
                    /\ fetches[f].status = "resolved"
                    /\ "POST" \in fetches[f].credActions.actions.keys)
    /\ result.actions = InitialValue.actions => ~canAdd

\* The first fetch has failed and the add button is not offered.
C10_Witness ==
    /\ contentError # NoError
    /\ result = InitialValue
    /\ ~isLoading
    /\ ~canAdd

----------------------------------------------------------------------------
(* C11 *)

\* This step delivers the success of fetch invocation f.
FetchResolves(f) ==
    /\ f \in PendingFetches
    /\ f \in DOMAIN fetches'
    /\ fetches'[f].status = "resolved"

\* C11: every fetchCredentials invocation that succeeds writes the view
\* model with its own responses, whether or not a later invocation has been
\* started or has already settled, and the view model changes in no other
\* step; so the invocation that settles last determines the view model, and
\* once nothing is pending the view model stays what it is.
C11_LastSettlementWins ==
    [][/\ \A f \in DOMAIN fetches :
            FetchResolves(f) =>
              /\ result' = FetchResult(fetches'[f].creds, fetches'[f].credActions)
              /\ fetches'[f].loc = fetches[f].loc
              /\ \A g \in DOMAIN fetches' \ {f} : fetches'[g].status # "resolved"
       /\ result' # result => \E f \in DOMAIN fetches : FetchResolves(f)
      ]_vars

\* Every request has settled, the URL shows the newer location and the view
\* model holds the rows the invocation for the older location received.
C11_Witness ==
    /\ PendingFetches = {}
    /\ ~hasContentLoading
    /\ contentError = NoError
    /\ \E f \in DOMAIN fetches :
          /\ fetches[f].status = "resolved"
          /\ fetches[f].loc.key < location.key
          /\ PageOf(fetches[f].loc) # PageOf(location)
          /\ ~RequestInFlight(fetches[f])
          /\ result = FetchResult(fetches[f].creds, fetches[f].credActions)
          /\ result.credentials # <<>>

----------------------------------------------------------------------------
(* C12 *)

\* C12: showDeletionError is false until the first deletion failure; the
\* commit that delivers the failure of a deletion invocation ends with
\* showDeletionError true, whatever it was before, also when the error of
\* an earlier failure is still held and its modal was closed; and
\* showDeletionError goes from true to false only in an onClose step.
C12_FailureOpensModal ==
    /\ [](started.delete = 0 => ~showDeletionError)
    /\ [][(\A d \in DOMAIN deletes : DeleteFails(d) => showDeletionError')
           /\ ((showDeletionError /\ ~showDeletionError') => CloseModal)
          ]_vars

\* The modal of a first failure was closed (its error is still held) and a
\* second deletion, triggered afterwards, has had one request answered and
\* has one in flight.
C12_Witness ==
    /\ ~showDeletionError
    /\ deletionError = Error("destroy", 1)
    /\ 2 \in PendingDeletes
    /\ \E i \in DOMAIN deletes[2].reqs : deletes[2].reqs[i] = "ok"

----------------------------------------------------------------------------
(* C13 *)

\* C13: an onClose step sets showDeletionError to false and changes nothing
\* else: not the selection, the view model, contentError, deletionError,
\* either loading flag or the location; no fetchCredentials or
\* deleteCredentials invocation is started and no request is issued.
C13_CloseChangesOnlyTheFlag ==
    [][CloseModal =>
         /\ ~showDeletionError'
         /\ UNCHANGED <<selected, result, contentError, deletionError,
                        isLoading, isDeleteLoading, location>>
         /\ UNCHANGED <<started, fetches, deletes>>
      ]_vars

\* The modal of a failed deletion was closed over a loaded page with the
\* selection in place and a delete request of the failed invocation still
\* in flight.
C13_Witness ==
    /\ ~showDeletionError
    /\ deletionError # NoError
    /\ selected # <<>>
    /\ result # InitialValue
    /\ \E d \in DOMAIN deletes : RequestInFlight(deletes[d])

----------------------------------------------------------------------------
(* C14 *)

\* The destroy calls deletion invocation c has issued for credential id x:
\* request i of c is CredentialsAPI.destroy(c.sel[i].id).
DestroyCalls(c, x) == { i \in DOMAIN c.reqs : c.sel[i].id = x }

\* C14: the step that triggers a deletion issues one destroy call for each
\* id of the selection as it is at the trigger and none for any other id;
\* no later step, whatever it does to the selection, adds a call to the
\* invocation, removes one, or issues an answered call again.
C14_OneDestroyPerSelected ==
    [][(started'.delete # started.delete =>
          LET d == started'.delete
          IN  IF selected = <<>>
              THEN d \notin DOMAIN deletes'
              ELSE /\ d \in DOMAIN deletes'
                   /\ DOMAIN deletes'[d].reqs = DOMAIN deletes'[d].sel
                   /\ \A i \in DOMAIN deletes'[d].reqs : deletes'[d].reqs[i] = "pending"
                   /\ \A x \in IdsOf(selected) :
                         Cardinality(DestroyCalls(deletes'[d], x)) = 1
                   /\ \A x \in Ids \ IdsOf(selected) :
                         DestroyCalls(deletes'[d], x) = {})
       /\ (\A d \in DOMAIN deletes' \ DOMAIN deletes :
              d = started'.delete /\ d = started.delete + 1)
       /\ (\A d \in DOMAIN deletes \cap DOMAIN deletes' :
              /\ \A x \in Ids :
                    DestroyCalls(deletes'[d], x) = DestroyCalls(deletes[d], x)
              /\ \A i \in DOMAIN deletes[d].reqs :
                    deletes[d].reqs[i] # "pending" =>
                        deletes'[d].reqs[i] = deletes[d].reqs[i])
      ]_vars

\* A deletion of two credentials is in flight and the selection has been
\* changed since it was triggered.
C14_Witness ==
    \E d \in PendingDeletes :
        /\ Len(deletes[d].sel) = 2
        /\ IdsOf(selected) # IdsOf(deletes[d].sel)
        /\ RequestInFlight(deletes[d])
        /\ \A x \in IdsOf(deletes[d].sel) :
              Cardinality(DestroyCalls(deletes[d], x)) = 1

----------------------------------------------------------------------------
(* C15 *)

\* C15: the step that delivers a fetch failure leaves showDeletionError and
\* deletionError as they are; the step that delivers a deletion failure
\* leaves contentError as it is; contentError changes only in a step that
\* settles a fetchCredentials invocation; showDeletionError goes from false
\* to true only in a step that delivers a deletion failure.
C15_ErrorChannelsApart ==
    [][/\ \A f \in DOMAIN fetches :
            FetchFails(f) =>
              /\ showDeletionError' = showDeletionError
              /\ deletionError' = deletionError
              /\ contentError' # NoError
       /\ \A d \in DOMAIN deletes :
            DeleteFails(d) => contentError' = contentError
       /\ contentError' # contentError =>
            \E f \in DOMAIN fetches : FetchFails(f) \/ FetchResolves(f)
       /\ (~showDeletionError /\ showDeletionError') =>
            \E d \in DOMAIN deletes : DeleteFails(d)
      ]_vars

\* A fetch has failed and a deletion has failed: each error is in its own
\* channel, and the modal of the deletion error was closed before or stayed
\* closed after the fetch failure.
C15_Witness ==
    /\ contentError \in {Error("read", 0), Error("readOptions", 0)}
    /\ deletionError = Error("destroy", 1)
    /\ ~showDeletionError
    /\ ~hasContentLoading

----------------------------------------------------------------------------
(* C16 *)

\* C16: the step that delivers the success of a deletion starts exactly one
\* fetchCredentials invocation: where adjustPagination navigates (page > 1
\* and as many selected as loaded) it is the automatic one for the new
\* location and no explicit one; otherwise, also on page 1 with every
\* loaded row deleted, it is the explicit one and no automatic one; and
\* the selection is empty afterwards.
C16_OneFetchPerDeletion ==
    [][\A d \in 1 .. MaxRedeletes : \A c \in Closures :
         DeleteResolves(d, c) =>
           LET n == started.effect + started.explicit + 1
               navigates == PageOf(c.loc) > 1 /\ Len(c.sel) = Len(c.creds)
           IN  /\ DOMAIN fetches' \ DOMAIN fetches = {n}
               /\ fetches'[n].status = "pending"
               /\ selected' = <<>>
               /\ IF navigates
                  THEN /\ started'.effect = started.effect + 1
                       /\ started'.explicit = started.explicit
                       /\ location' # location
                       /\ fetches'[n].origin = "effect"
                       /\ fetches'[n].loc = location'
                  ELSE /\ started'.effect = started.effect
                       /\ started'.explicit = started.explicit + 1
                       /\ location' = location
                       /\ fetches'[n].origin = "explicit"
                       /\ fetches'[n].loc = c.loc
      ]_vars

\* A deletion triggered on page 2 has succeeded and navigated: the location
\* is page 1, the automatic fetch for it is in flight, no explicit fetch
\* was ever started and the selection is empty.
C16_Witness ==
    /\ started = [effect |-> 3, explicit |-> 0, delete |-> 1]
    /\ deletes = <<>>
    /\ deletionError = NoError
    /\ PageOf(location) = 1
    /\ location.key = 2
    /\ selected = <<>>
    /\ 3 \in PendingFetches

----------------------------------------------------------------------------
(* C17 *)

\* C17: where delete is offered only while the loading signal is false, at
\* most one deletion invocation is pending in any state, and in a step
\* that starts a deletion no destroy request of an earlier invocation is in
\* flight.
C17_OneDeletionAtATime ==
    /\ [](Cardinality(PendingDeletes) <= 1)
    /\ [][started'.delete # started.delete =>
            \A d \in DOMAIN deletes : ~RequestInFlight(deletes[d])]_vars

----------------------------------------------------------------------------
(* C18 *)

\* C18: list-read responses carrying no id twice, in every reachable state
\* no two entries of the selection have the same id, and no deletion
\* invocation has issued two destroy calls for the same id.
C18_SelectionWithoutRepeats ==
    /\ \A i, j \in DOMAIN selected :
          selected[i].id = selected[j].id => i = j
    /\ \A d \in DOMAIN deletes : \A x \in Ids :
          Cardinality(DestroyCalls(deletes[d], x)) <= 1

\* Two rows were selected one by one, the second listed first, and the
\* deletion of both is in flight.
C18_Witness ==
    /\ selected = <<Credential(2), Credential(1)>>
    /\ \E d \in PendingDeletes :
          /\ deletes[d].sel = selected
          /\ RequestInFlight(deletes[d])

====
